---- MODULE Spec2Model ----
(***************************************************************************)
(* Model of app.py, the Arc Raiders component browser: build_display_df    *)
(* joins the workbook's six tables into one display table, filter_display  *)
(* applies the sidebar's predicates, and the script selects the display    *)
(* columns.  A text value is a sequence of one-character strings, so that  *)
(* joining, sorting and searching are computed as Python computes them.    *)
(* A quantity is counted in halves (3 stands for 1.5), so that fractional  *)
(* quantities and the truncation of astype(int) are both representable.    *)
(***************************************************************************)
EXTENDS Integers, Sequences, FiniteSets, TLC

VARIABLES tables, pc, error, prepared, filters, result_df, shown

vars == <<tables, pc, error, prepared, filters, result_df, shown>>

(* ------------------------------ bounds -------------------------------- *)

MaxLocRows == 3
MaxUsageRows == 2
MaxDisRows == 2
MaxQtyHalves == 4

(* ------------------------------- text --------------------------------- *)

\* The characters the model's texts are made of, in ascending code point order.
AsciiOrder ==
    <<" ", "(", ")", ",", ".", "0", "1", "2", "3", "4", "5", "6", "7", "8", "9",
      "B", "C", "D", "G", "K", "N", "O", "R", "U",
      "a", "b", "d", "e", "i", "k", "l", "m", "n", "o", "r", "s", "t", "u", "w", "x", "y">>

Ord(c) == CHOOSE i \in 1..Len(AsciiOrder) : AsciiOrder[i] = c

\* Python's str < str: lexicographic by code point, a proper prefix first.
RECURSIVE StrLess(_, _)
StrLess(a, b) ==
    IF b = <<>> THEN FALSE
    ELSE IF a = <<>> THEN TRUE
    ELSE IF Head(a) = Head(b) THEN StrLess(Tail(a), Tail(b))
    ELSE Ord(Head(a)) < Ord(Head(b))

Digits == <<"0", "1", "2", "3", "4", "5", "6", "7", "8", "9">>

\* str(n) of a non-negative integer.
RECURSIVE IntStr(_)
IntStr(n) == IF n < 10 THEN <<Digits[n + 1]>> ELSE IntStr(n \div 10) \o <<Digits[(n % 10) + 1]>>

\* sep.join(parts)
RECURSIVE Join(_, _)
Join(sep, parts) ==
    IF parts = <<>> THEN <<>>
    ELSE IF Len(parts) = 1 THEN parts[1]
    ELSE parts[1] \o sep \o Join(sep, Tail(parts))

CommaSpace == <<",", " ">>

\* Series.str.contains(target, na=False): a regular-expression search, in which
\* "." stands for any character and the other characters of the model's
\* patterns (letters, digits, the space) stand for themselves.
StrContains(text, target) ==
    \E i \in 0..(Len(text) - Len(target)) :
        \A j \in 1..Len(target) : target[j] = "." \/ target[j] = text[i + j]

\* The placeholder texts of lines 129, 168 and 181-183.
NoKnownUse == <<"N", "o", " ", "k", "n", "o", "w", "n", " ", "u", "s", "e">>
Unknown == <<"U", "n", "k", "n", "o", "w", "n">>
CannotBeDismantled ==
    <<"C", "a", "n", "n", "o", "t", " ", "b", "e", " ",
      "d", "i", "s", "m", "a", "n", "t", "l", "e", "d">>

\* Python's None, for a column that col() does not find.
None == "None"

(* ------------------------------ tables ------------------------------- *)

\* A sheet as prepare_tables returns it: the stripped column headers, and the
\* rows, each holding its cells under the logical name of their column.
Sheet(cols, rows) == [cols |-> cols, rows |-> rows]

\* A quantity cell as read from the workbook: a number (h halves), a text that
\* is no number, or an empty cell.
NumCell(h) == [t |-> "num", h |-> h]
TextCell == [t |-> "text", h |-> 0]
NanCell == [t |-> "nan", h |-> 0]

\* def col(df, candidates): the first candidate that is a column of df.
col(df, candidates) ==
    IF \E i \in DOMAIN candidates : candidates[i] \in df.cols
    THEN candidates[CHOOSE i \in DOMAIN candidates :
                        /\ candidates[i] \in df.cols
                        /\ \A j \in 1..(i - 1) : candidates[j] \notin df.cols]
    ELSE None

comp_id_col(t) == col(t.comp, <<"ComponentID", "Component Id", "ID", "componentid">>)
comp_name_col(t) == col(t.comp, <<"ComponentName", "Component Name", "Name">>)
comp_rarity_col(t) == col(t.comp, <<"ComponentRarity", "Rarity">>)
comp_price_col(t) == col(t.comp, <<"ComponentSellPrice", "Sell Price", "Price">>)
craft_id_col(t) == col(t.craft, <<"CraftableID", "Craftable Id", "CraftableID">>)
craft_name_col(t) == col(t.craft, <<"CraftableName", "Craftable Name", "Name">>)
loc_id_col(t) == col(t.loc, <<"LocationID", "Location Id", "LocationID">>)
loc_name_col(t) == col(t.loc, <<"LocationName", "Location Name", "Name">>)
usage_comp_id(t) == col(t.usage, <<"ComponentID", "Component Id", "ComponentID">>)
usage_craft_id(t) == col(t.usage, <<"CraftableID", "Craftable Id", "CraftableID">>)
usage_qty_col(t) == col(t.usage, <<"UsageQuantity", "Usage Quantity", "Quantity", "Qty">>)
comp_loc_compid(t) == col(t.comp_loc, <<"ComponentID", "Component Id", "ComponentID">>)
comp_loc_locid(t) == col(t.comp_loc, <<"LocationID", "Location Id", "LocationID">>)
dis_src_col(t) ==
    col(t.dis, <<"SourceComponentID", "Source Component ID", "SourceComponentID">>)
dis_res_col(t) ==
    col(t.dis, <<"ResultComponentID", "Result Component ID", "ResultComponentID">>)
dis_qty_col(t) == col(t.dis, <<"Quantity", "Qty", "quantity">>)

(* --------------------------- pandas helpers --------------------------- *)

\* pd.Series(df[value].values, index=df[key]).to_dict(): the last row of a
\* key wins.
ToDict(rows, key, value) ==
    [k \in {rows[i][key] : i \in DOMAIN rows} |->
        rows[CHOOSE i \in DOMAIN rows :
                /\ rows[i][key] = k
                /\ \A j \in DOMAIN rows : rows[j][key] = k => j <= i][value]]

\* The rows of one group of groupby(key), in source-row order.
Group(rows, key, k) == SelectSeq(rows, LAMBDA r : r[key] = k)

GroupKeys(rows, key) == {rows[i][key] : i \in DOMAIN rows}

\* pd.to_numeric(cell, errors="coerce") then .fillna(0), in halves.
to_numeric(cell) == IF cell.t = "num" THEN cell.h ELSE 0

\* The coerced column is int64 only when every cell is a whole number; a
\* fraction, a text or an empty cell makes it float64, and iterrows then hands
\* every cell of the row over as a float.
IsFloatColumn(rows, column) ==
    \E i \in DOMAIN rows : rows[i][column].t # "num" \/ rows[i][column].h % 2 # 0

\* str(id) of an ID cell of such a row.
IdStr(id, asFloat) == IF asFloat THEN IntStr(id) \o <<".", "0">> ELSE IntStr(id)

\* int(q) if q.is_integer() else q, as an f-string renders it (q is h halves).
FormatQty(h) ==
    IF h % 2 = 0 THEN IntStr(h \div 2) ELSE IntStr(h \div 2) \o <<".", "5">>

\* The set of strings in ascending order.
RECURSIVE SortStrs(_)
SortStrs(S) ==
    IF S = {} THEN <<>>
    ELSE LET m == CHOOSE x \in S : \A y \in S \ {x} : StrLess(x, y)
         IN  <<m>> \o SortStrs(S \ {m})

\* Series.unique(): the distinct values in order of first appearance.
RECURSIVE Unique(_)
Unique(s) ==
    IF s = <<>> THEN <<>>
    ELSE LET r == Unique(SubSeq(s, 1, Len(s) - 1))
             l == s[Len(s)]
         IN  IF \E i \in DOMAIN r : r[i] = l THEN r ELSE Append(r, l)

\* A variant of SortedSet that removes the duplicates and does not sort.
SortedSetUnsorted(rows) == Unique(rows)

\* sorted(set(rows)) of line 147.
SortedSet(rows) == SortStrs({rows[i] : i \in DOMAIN rows})

\* pandas' missing value in a column of texts.
NaN == <<"NaN">>

\* out.join(series), for the row of one key: the series' value, or NaN for a
\* key the series does not have.
JoinCell(series, key) == IF key \in DOMAIN series THEN series[key] ELSE NaN

\* A variant of FillNa that leaves the missing value in place.
FillNaOmitted(cell, default) == cell

\* out[column].fillna(default), for one cell.
FillNa(cell, default) == IF cell = NaN THEN default ELSE cell

RECURSIVE SumHalves(_)
SumHalves(qs) == IF qs = <<>> THEN 0 ELSE Head(qs) + SumHalves(Tail(qs))

\* float -> int of astype(int): truncation (the quantities are not negative).
AsTypeInt(h) == h \div 2

\* Lines 178 and 180: out.join(total_needed), then fillna(0).astype(int).
TotalNeededCell(series, key) == AsTypeInt(IF key \in DOMAIN series THEN series[key] ELSE 0)

(* -------------------------- build_display_df -------------------------- *)

EmptyDict == [k \in {} |-> <<>>]

\* A variant of ConfigError that checks the ID column alone.
ConfigErrorIdOnly(t) == comp_id_col(t) = None

\* Lines 103-105: st.error and st.stop() when the Component sheet lacks its ID
\* or its name column.
ConfigError(t) == comp_id_col(t) = None \/ comp_name_col(t) = None

\* Line 111 and lines 113-115.
UsageResolved(t) == usage_comp_id(t) # None /\ usage_craft_id(t) # None

craft_map(t) ==
    IF craft_id_col(t) # None /\ craft_name_col(t) # None
    THEN ToDict(t.craft.rows, "CraftableID", "CraftableName")
    ELSE EmptyDict

\* Lines 124-129.
build_usage_text(g, cmap, asFloat) ==
    LET entry(r) ==
            (IF r.CraftableID \in DOMAIN cmap THEN cmap[r.CraftableID]
             ELSE IdStr(r.CraftableID, asFloat))
            \o <<" ", "(">> \o FormatQty(to_numeric(r.UsageQuantity)) \o <<")">>
    IN  IF g # <<>> THEN Join(CommaSpace, [i \in DOMAIN g |-> entry(g[i])])
        ELSE NoKnownUse

\* Line 122: groupby("ComponentID")["UsageQuantity"].sum(), in halves.
total_needed(t) ==
    IF UsageResolved(t)
    THEN [k \in GroupKeys(t.usage.rows, "ComponentID") |->
            SumHalves([i \in DOMAIN Group(t.usage.rows, "ComponentID", k) |->
                to_numeric(Group(t.usage.rows, "ComponentID", k)[i].UsageQuantity)])]
    ELSE EmptyDict

\* Line 130, and line 133 when the usage columns are not resolved.
usage_text(t) ==
    IF UsageResolved(t)
    THEN [k \in GroupKeys(t.usage.rows, "ComponentID") |->
            build_usage_text(Group(t.usage.rows, "ComponentID", k), craft_map(t),
                             IsFloatColumn(t.usage.rows, "UsageQuantity"))]
    ELSE EmptyDict

\* Line 136.
LocResolved(t) ==
    /\ comp_loc_compid(t) # None /\ comp_loc_locid(t) # None
    /\ loc_id_col(t) # None /\ loc_name_col(t) # None

loc_map(t) == ToDict(t.loc.rows, "LocationID", "LocationName")

\* A variant of LocName whose fallback is the empty text.
LocNameNoFallback(lmap, id) == IF id \in DOMAIN lmap THEN lmap[id] ELSE <<>>

\* Line 145: loc_map.get(r["LocationID"], str(r["LocationID"])).
LocName(lmap, id) == IF id \in DOMAIN lmap THEN lmap[id] ELSE IntStr(id)

\* Lines 142-147.
build_loc_text(g, lmap) ==
    LET rows == [i \in DOMAIN g |-> LocName(lmap, g[i].LocationID)]
    IN  IF rows # <<>> THEN Join(CommaSpace, SortedSet(rows)) ELSE <<>>

\* Line 148, and line 152 when the location columns are not resolved.
loc_text(t) ==
    IF LocResolved(t)
    THEN [k \in GroupKeys(t.comp_loc.rows, "ComponentID") |->
            build_loc_text(Group(t.comp_loc.rows, "ComponentID", k), loc_map(t))]
    ELSE EmptyDict

\* Line 156.
DisResolved(t) == dis_src_col(t) # None /\ dis_res_col(t) # None

res_map(t) == ToDict(t.comp.rows, "ComponentID", "ComponentName")

\* Lines 163-168.
build_dis_text(g, rmap, asFloat) ==
    LET entry(r) ==
            (IF r.ResultComponentID \in DOMAIN rmap THEN rmap[r.ResultComponentID]
             ELSE IdStr(r.ResultComponentID, asFloat))
            \o <<" ", "(">> \o FormatQty(to_numeric(r.Quantity)) \o <<"x", ")">>
    IN  IF g # <<>> THEN Join(CommaSpace, [i \in DOMAIN g |-> entry(g[i])])
        ELSE CannotBeDismantled

\* Line 169, and line 173 when the dismantle columns are not resolved.
dis_text(t) ==
    IF DisResolved(t)
    THEN [k \in GroupKeys(t.dis.rows, "SourceComponentID") |->
            build_dis_text(Group(t.dis.rows, "SourceComponentID", k), res_map(t),
                           IsFloatColumn(t.dis.rows, "Quantity"))]
    ELSE EmptyDict

\* Lines 171 and 174.
dismantle_lookup(t) ==
    IF DisResolved(t)
    THEN [i \in DOMAIN t.dis.rows |->
            [SourceComponentID |-> t.dis.rows[i].SourceComponentID,
             ResultComponentID |-> t.dis.rows[i].ResultComponentID]]
    ELSE <<>>

\* Lines 117-118 and 159-160: with the ID columns resolved and no quantity
\* column, two columns are selected and three names assigned: ValueError.
LengthMismatch(t) ==
    \/ UsageResolved(t) /\ usage_qty_col(t) = None
    \/ DisResolved(t) /\ dis_qty_col(t) = None

\* Lines 130, 148 and 169: groupby(...).apply(...) of a sheet that has its
\* columns and no row.
EmptyGrouped(t) ==
    \/ UsageResolved(t) /\ t.usage.rows = <<>>
    \/ LocResolved(t) /\ t.comp_loc.rows = <<>>
    \/ DisResolved(t) /\ t.dis.rows = <<>>

\* What apply() returns there is the library's choice: an empty Series, which
\* rename() names and join() adds as a column, or an empty DataFrame, on which
\* the rename or the later out[...] raises.
ApplyOutcomes(t) == IF EmptyGrouped(t) THEN {"series", "frame"} ELSE {"series"}

\* Lines 107-108 and 177-184: the columns of out.
DisplayColumns(t) ==
    {"ComponentID", "ComponentName", "TotalNeeded", "Uses", "FoundIn", "DismantlesInto"}
    \cup (IF comp_rarity_col(t) # None THEN {"ComponentRarity"} ELSE {})
    \cup (IF comp_price_col(t) # None THEN {"ComponentSellPrice"} ELSE {})

\* Lines 176-184: one row of out per row of the Component sheet.  A cell of a
\* column that out does not have is written as the empty text or 0 and is
\* never read.
DisplayRow(t, c) ==
    [ComponentID |-> c.ComponentID,
     ComponentName |-> c.ComponentName,
     ComponentRarity |-> IF comp_rarity_col(t) # None THEN c.ComponentRarity ELSE <<>>,
     ComponentSellPrice |-> IF comp_price_col(t) # None THEN c.ComponentSellPrice ELSE 0,
     TotalNeeded |-> TotalNeededCell(total_needed(t), c.ComponentID),
     Uses |-> FillNa(JoinCell(usage_text(t), c.ComponentID), NoKnownUse),
     FoundIn |-> FillNa(JoinCell(loc_text(t), c.ComponentID), Unknown),
     DismantlesInto |-> FillNa(JoinCell(dis_text(t), c.ComponentID), CannotBeDismantled)]

DataFrame(columns, rows) == [columns |-> columns, rows |-> rows]

NoFrame == DataFrame({}, <<>>)

NoPrepared ==
    [display |-> NoFrame, rarities |-> <<>>, locations |-> <<>>, craftables |-> <<>>,
     dismantle_targets |-> <<>>, dismantle_lookup |-> <<>>]

\* Lines 62-201.  The result: what ended the call ("none": it returned) and the
\* dict it returned.
build_display_df(t, applied) ==
    IF ConfigError(t) THEN [error |-> "stop", value |-> NoPrepared]
    ELSE IF LengthMismatch(t) \/ (EmptyGrouped(t) /\ applied = "frame")
    THEN [error |-> "build", value |-> NoPrepared]
    ELSE LET out == [i \in DOMAIN t.comp.rows |-> DisplayRow(t, t.comp.rows[i])]
         IN  [error |-> "none",
              value |->
                [display |-> DataFrame(DisplayColumns(t), out),
                 rarities |->
                    IF comp_rarity_col(t) # None
                    THEN SortedSet([i \in DOMAIN out |-> out[i].ComponentRarity])
                    ELSE <<>>,
                 locations |->
                    IF loc_name_col(t) # None
                    THEN SortedSet([i \in DOMAIN t.loc.rows |-> t.loc.rows[i].LocationName])
                    ELSE <<>>,
                 craftables |->
                    IF craft_name_col(t) # None
                    THEN Unique([i \in DOMAIN t.craft.rows |-> t.craft.rows[i].CraftableName])
                    ELSE <<>>,
                 dismantle_targets |->
                    Unique([i \in DOMAIN out |-> out[i].ComponentName]),
                 dismantle_lookup |-> dismantle_lookup(t)]]

(* --------------------------- filter_display ---------------------------- *)

\* if filters.get(key): the key is set and its text is not empty.
Truthy(f, key) == key \in DOMAIN f /\ f[key] # <<>>

\* A variant of ShowUnknown whose default is False.
ShowUnknownDefaultFalse(f) == IF "show_unknown" \in DOMAIN f THEN f["show_unknown"] ELSE FALSE

\* Line 237: filters.get("show_unknown", True).
ShowUnknown(f) == IF "show_unknown" \in DOMAIN f THEN f["show_unknown"] ELSE TRUE

\* Line 225: the name -> ComponentID dict of the display table.
name_to_id(df) == ToDict(df.rows, "ComponentName", "ComponentID")

\* Lines 223-234.
DismantleFilter(df_display, lookup, rows, dest_name) ==
    IF dest_name \in DOMAIN name_to_id(df_display)
    THEN LET dest_id == name_to_id(df_display)[dest_name]
             matches == {lookup[i].SourceComponentID :
                            i \in {j \in DOMAIN lookup : lookup[j].ResultComponentID = dest_id}}
         IN  SelectSeq(rows, LAMBDA r : r.ComponentID \in matches)
    ELSE <<>>

\* Lines 203-240.  The result: what ended the call, and the frame it returned.
filter_display(df_display, lookup, f) ==
    IF Truthy(f, "rarity") /\ "ComponentRarity" \notin df_display.columns
    THEN [error |-> "filter", value |-> NoFrame]
    ELSE LET r0 == df_display.rows
             r1 == IF Truthy(f, "rarity")
                   THEN SelectSeq(r0, LAMBDA r : r.ComponentRarity = f["rarity"])
                   ELSE r0
             r2 == IF Truthy(f, "location")
                   THEN SelectSeq(r1, LAMBDA r : StrContains(r.FoundIn, f["location"]))
                   ELSE r1
             r3 == IF Truthy(f, "craftable")
                   THEN SelectSeq(r2, LAMBDA r : StrContains(r.Uses, f["craftable"]))
                   ELSE r2
             r4 == IF Truthy(f, "dismantle_to")
                   THEN DismantleFilter(df_display, lookup, r3, f["dismantle_to"])
                   ELSE r3
             r5 == IF ~ShowUnknown(f)
                   THEN SelectSeq(r4, LAMBDA r : r.FoundIn # Unknown)
                   ELSE r4
         IN  [error |-> "none", value |-> DataFrame(df_display.columns, r5)]

\* Lines 280-288: the columns the script selects from result_df.
ShownColumns ==
    {"ComponentName", "ComponentRarity", "ComponentSellPrice", "TotalNeeded", "Uses",
     "FoundIn", "DismantlesInto"}

\* Lines 279-296: the [[...]] selection raises KeyError when result_df lacks one
\* of the columns; otherwise the renamed columns are shown.
render(df) ==
    IF ~(ShownColumns \subseteq df.columns)
    THEN [error |-> "render", value |-> <<>>]
    ELSE [error |-> "none",
          value |-> [i \in DOMAIN df.rows |->
                        [Name |-> df.rows[i].ComponentName,
                         Rarity |-> df.rows[i].ComponentRarity,
                         SellPrice |-> df.rows[i].ComponentSellPrice,
                         TotalNeeded |-> df.rows[i].TotalNeeded,
                         UsedIn |-> df.rows[i].Uses,
                         FoundIn |-> df.rows[i].FoundIn,
                         DismantlesInto |-> df.rows[i].DismantlesInto]]]

(* ------------------------------- inputs -------------------------------- *)

Ore == <<"O", "r", "e">>
Gel == <<"G", "e", "l">>
Rod == <<"R", "o", "d">>
Gold == <<"G", "o", "l", "d">>
Kit == <<"K", "i", "t">>
Dam == <<"D", "a", "m">>
Bay == <<"B", "a", "y">>
BDotY == <<"B", ".", "y">>
UnknownBay == <<"U", "n", "k", "n", "o", "w", "n", " ", "B", "a", "y">>
Rare == <<"R", "a", "r", "e">>
Base == <<"B", "a", "s", "e">>

SetToSeqs(S, n) == UNION {[1..k -> S] : k \in 0..n}

CompRow(id, name, rarity, price) ==
    [ComponentID |-> id, ComponentName |-> name, ComponentRarity |-> rarity,
     ComponentSellPrice |-> price]

\* The workbook the other inputs vary around: two components, of which the
\* first has one usage, one location and one dismantle result.
BaseTables ==
    [craft |-> Sheet({"CraftableID", "CraftableName"},
                     <<[CraftableID |-> 10, CraftableName |-> Kit]>>),
     loc |-> Sheet({"LocationID", "LocationName"},
                   <<[LocationID |-> 1, LocationName |-> Dam],
                     [LocationID |-> 2, LocationName |-> Bay]>>),
     comp |-> Sheet({"ComponentID", "ComponentName", "ComponentRarity", "ComponentSellPrice"},
                    <<CompRow(1, Ore, Rare, 5), CompRow(2, Gel, Base, 3)>>),
     usage |-> Sheet({"ComponentID", "CraftableID", "UsageQuantity"},
                     <<[ComponentID |-> 1, CraftableID |-> 10, UsageQuantity |-> NumCell(4)]>>),
     comp_loc |-> Sheet({"ComponentID", "LocationID"},
                        <<[ComponentID |-> 1, LocationID |-> 1]>>),
     dis |-> Sheet({"SourceComponentID", "ResultComponentID", "Quantity"},
                   <<[SourceComponentID |-> 1, ResultComponentID |-> 2,
                      Quantity |-> NumCell(2)]>>)]

\* The header rows of each sheet: the workbook's names, other spellings col()
\* accepts, and sheets that lack columns or are missing (no column at all).
CompHeaders ==
    (SUBSET {"ComponentID", "ComponentName", "ComponentRarity", "ComponentSellPrice"})
    \cup {{"ID", "Name", "Rarity", "Price"}}
LocHeaders == (SUBSET {"LocationID", "LocationName"}) \cup {{"Location Id", "Name"}}
UsageHeaders ==
    {{"ComponentID", "CraftableID", "UsageQuantity"}, {"Component Id", "Craftable Id", "Qty"},
     {"ComponentID", "CraftableID"}, {"ComponentID", "UsageQuantity"}, {}}
CompLocHeaders == {{"ComponentID", "LocationID"}, {"ComponentID"}, {}}
DisHeaders ==
    {{"SourceComponentID", "ResultComponentID", "Quantity"},
     {"SourceComponentID", "ResultComponentID"}, {"SourceComponentID", "Quantity"}, {}}
CraftHeaders == {{"CraftableID", "CraftableName"}, {}}

\* A sheet without columns is a sheet the workbook does not have: no rows.
WithHeaders(sheet, cols) == Sheet(cols, IF cols = {} THEN <<>> ELSE sheet.rows)

LocTables ==
    {<<[LocationID |-> 1, LocationName |-> Dam], [LocationID |-> 2, LocationName |-> Bay]>>,
     <<[LocationID |-> 1, LocationName |-> UnknownBay],
       [LocationID |-> 2, LocationName |-> BDotY]>>}

\* LocationID 9 is in no Location sheet of the model.
CompLocRows == [ComponentID : {1, 2}, LocationID : {1, 2, 9}]

QtyCells == {NumCell(h) : h \in 1..MaxQtyHalves} \cup {TextCell, NanCell}

\* CraftableID 11 is not in the Craftable sheet.
UsageRows == [ComponentID : {1, 2}, CraftableID : {10, 11}, UsageQuantity : QtyCells]

CompTables ==
    {<<CompRow(1, Ore, Rare, 5), CompRow(2, Gel, Base, 3), CompRow(3, Rod, Base, 1)>>,
     <<CompRow(1, Ore, Rare, 5), CompRow(2, Gel, Base, 3), CompRow(3, Ore, Base, 1)>>}

\* ComponentID 7 is not in the Component sheet.
DisRows ==
    [SourceComponentID : {1, 2}, ResultComponentID : {1, 2, 3, 7},
     Quantity : {NumCell(2), NumCell(3)}]

\* The filter dicts passed to filter_display: none or one of the four
\* selections, with the checkbox's value; and the empty dict.  The selections
\* are those the sidebar offers (lines 257-261), a rarity and a component name
\* that need not be in the data.
Elems(s) == {s[i] : i \in DOMAIN s}

FilterInputs(p) ==
    {EmptyDict}
    \cup {[show_unknown |-> b] : b \in BOOLEAN}
    \cup {[rarity |-> r, show_unknown |-> b] :
            r \in Elems(p.rarities) \cup {Rare}, b \in BOOLEAN}
    \cup {[location |-> l, show_unknown |-> b] :
            l \in Elems(p.locations) \cup {Unknown}, b \in BOOLEAN}
    \cup {[craftable |-> c, show_unknown |-> b] : c \in Elems(p.craftables), b \in BOOLEAN}
    \cup {[dismantle_to |-> d, show_unknown |-> b] :
            d \in Elems(p.dismantle_targets) \cup {Gold}, b \in BOOLEAN}

(* ------------------------------- actions ------------------------------- *)

Start ==
    /\ pc = "prepared"
    /\ error = "none"
    /\ prepared = NoPrepared
    /\ filters = EmptyDict
    /\ result_df = NoFrame
    /\ shown = <<>>

\* Every sheet's header row varies; the rows are the base workbook's.
InitSchema ==
    /\ tables \in
        {[craft |-> WithHeaders(BaseTables.craft, h1), loc |-> WithHeaders(BaseTables.loc, h2),
          comp |-> WithHeaders(BaseTables.comp, h3), usage |-> WithHeaders(BaseTables.usage, h4),
          comp_loc |-> WithHeaders(BaseTables.comp_loc, h5),
          dis |-> WithHeaders(BaseTables.dis, h6)] :
            h1 \in CraftHeaders, h2 \in LocHeaders, h3 \in CompHeaders,
            h4 \in UsageHeaders, h5 \in CompLocHeaders, h6 \in DisHeaders}
    /\ Start

\* The Location sheet and the ComponentLocation rows vary.
InitLoc ==
    /\ tables \in
        {[BaseTables EXCEPT !.loc.rows = l, !.comp_loc.rows = r] :
            l \in LocTables, r \in SetToSeqs(CompLocRows, MaxLocRows)}
    /\ Start

\* The ComponentUsage rows vary.
InitUsage ==
    /\ tables \in
        {[BaseTables EXCEPT !.usage.rows = r] : r \in SetToSeqs(UsageRows, MaxUsageRows)}
    /\ Start

\* The Component sheet and the DismantleResults rows vary.
InitDis ==
    /\ tables \in
        {[BaseTables EXCEPT !.comp.rows = c, !.dis.rows = r] :
            c \in CompTables, r \in SetToSeqs(DisRows, MaxDisRows)}
    /\ Start

Init == InitSchema \/ InitLoc \/ InitUsage \/ InitDis

\* Line 251: prepared = build_display_df(tables).
BuildDisplay ==
    /\ pc = "prepared"
    /\ \E applied \in ApplyOutcomes(tables) :
        LET o == build_display_df(tables, applied)
        IN  /\ pc' = IF o.error = "none" THEN "built" ELSE "halted"
            /\ error' = o.error
            /\ prepared' = o.value
    /\ UNCHANGED <<tables, filters, result_df, shown>>

\* Lines 263-276: result_df = filter_display(df_display, dismantle_lookup, filters).
FilterDisplay ==
    /\ pc = "built"
    /\ \E f \in FilterInputs(prepared) :
        LET o == filter_display(prepared.display, prepared.dismantle_lookup, f)
        IN  /\ filters' = f
            /\ pc' = IF o.error = "none" THEN "filtered" ELSE "halted"
            /\ error' = o.error
            /\ result_df' = o.value
    /\ UNCHANGED <<tables, prepared, shown>>

\* Lines 279-296: the result count and the table of the selected columns.
Render ==
    /\ pc = "filtered"
    /\ LET o == render(result_df)
       IN  /\ pc' = IF o.error = "none" THEN "rendered" ELSE "halted"
           /\ error' = o.error
           /\ shown' = o.value
    /\ UNCHANGED <<tables, prepared, filters, result_df>>

Next == BuildDisplay \/ FilterDisplay \/ Render

Spec == Init /\ [][Next]_vars
SpecSchema == InitSchema /\ [][Next]_vars
SpecLoc == InitLoc /\ [][Next]_vars
SpecUsage == InitUsage /\ [][Next]_vars
SpecDis == InitDis /\ [][Next]_vars

(* ------------------------------ properties ----------------------------- *)

\* build_display_df has returned its dict.
Returned == prepared # NoPrepared

DisplayRows == prepared.display.rows

\* The rows of a sheet that name component id in their ComponentID cell.
RowsOf(rows, id) == SelectSeq(rows, LAMBDA r : r.ComponentID = id)

\* text.split(", ")
RECURSIVE SplitCommaSpace(_)
SplitCommaSpace(text) ==
    IF \E i \in 1..(Len(text) - 1) : text[i] = "," /\ text[i + 1] = " "
    THEN LET i == CHOOSE k \in 1..(Len(text) - 1) :
                    /\ text[k] = "," /\ text[k + 1] = " "
                    /\ \A j \in 1..(k - 1) : ~(text[j] = "," /\ text[j + 1] = " ")
         IN  <<SubSeq(text, 1, i - 1)>> \o SplitCommaSpace(SubSeq(text, i + 2, Len(text)))
    ELSE <<text>>

\* target occurs in text, character for character.
LiteralSubstring(text, target) ==
    \E i \in 0..(Len(text) - Len(target)) : SubSeq(text, i + 1, i + Len(target)) = target

\* C1: for every component of the display table, TotalNeeded is the exact sum
\* of the coerced UsageQuantity cells of the component's ComponentUsage rows (a
\* text or an empty cell counting 0, no row giving 0), fractions included.  In
\* halves: twice TotalNeeded is the sum of the halves.
C1_TotalNeededExactSum ==
    Returned =>
        \A i \in DOMAIN DisplayRows :
            LET g == RowsOf(tables.usage.rows, DisplayRows[i].ComponentID)
            IN  2 * DisplayRows[i].TotalNeeded =
                    SumHalves([j \in DOMAIN g |->
                        IF g[j].UsageQuantity.t = "num" THEN g[j].UsageQuantity.h ELSE 0])

\* A component whose usage quantities sum to a fraction has been built.
C1_FractionalSumBuilt ==
    /\ pc = "built"
    /\ \E i \in DOMAIN DisplayRows :
        SumHalves([j \in DOMAIN RowsOf(tables.usage.rows, DisplayRows[i].ComponentID) |->
            to_numeric(RowsOf(tables.usage.rows, DisplayRows[i].ComponentID)[j].UsageQuantity)])
            % 2 = 1

\* C2: every record build_display_df produces has a value that is not null for
\* Uses, FoundIn, DismantlesInto and TotalNeeded; a component with no
\* ComponentLocation row has FoundIn "Unknown", one with no ComponentUsage row
\* has Uses "No known use", one that is the source of no DismantleResults row
\* has DismantlesInto "Cannot be dismantled"; whichever sheets or columns are
\* missing.
C2_PlaceholdersNeverNull ==
    Returned =>
        \A i \in DOMAIN DisplayRows :
            LET r == DisplayRows[i]
            IN  /\ r.Uses # NaN /\ r.FoundIn # NaN /\ r.DismantlesInto # NaN
                /\ r.TotalNeeded \in Nat
                /\ RowsOf(tables.comp_loc.rows, r.ComponentID) = <<>> => r.FoundIn = Unknown
                /\ RowsOf(tables.usage.rows, r.ComponentID) = <<>>
                        => r.Uses = NoKnownUse /\ r.TotalNeeded = 0
                /\ SelectSeq(tables.dis.rows, LAMBDA d : d.SourceComponentID = r.ComponentID) = <<>>
                        => r.DismantlesInto = CannotBeDismantled

\* Built without the usage sheet: every component has the usage placeholder,
\* one has a location and a dismantle text, another has their placeholders.
C2_BuiltWithMissingSheet ==
    /\ pc = "built"
    /\ tables.usage.cols = {}
    /\ \A i \in DOMAIN DisplayRows : DisplayRows[i].Uses = NoKnownUse
    /\ \E i \in DOMAIN DisplayRows :
        DisplayRows[i].FoundIn # Unknown /\ DisplayRows[i].DismantlesInto # CannotBeDismantled
    /\ \E i \in DOMAIN DisplayRows :
        DisplayRows[i].FoundIn = Unknown /\ DisplayRows[i].DismantlesInto = CannotBeDismantled

\* The name a ComponentLocation row's LocationID resolves to: the Location
\* sheet's name for it, or the ID's text when the sheet has no such ID.
ResolvedName(row) ==
    IF \E l \in Elems(tables.loc.rows) : l.LocationID = row.LocationID
    THEN (CHOOSE l \in Elems(tables.loc.rows) : l.LocationID = row.LocationID).LocationName
    ELSE IntStr(row.LocationID)

Permuted(rows, p) == [i \in DOMAIN rows |-> rows[p[i]]]

\* C3: for every component with a ComponentLocation row, FoundIn is the
\* ", "-joined list of the distinct resolved location names of the component,
\* in strictly ascending order (so without duplicates), and every permutation
\* of the ComponentLocation rows gives the same FoundIn.
C3_FoundInSortedDistinct ==
    pc = "built" =>
        \A i \in DOMAIN DisplayRows :
            LET r == DisplayRows[i]
                g == RowsOf(tables.comp_loc.rows, r.ComponentID)
                entries == SplitCommaSpace(r.FoundIn)
            IN  g # <<>> =>
                    /\ \A a, b \in DOMAIN entries : a < b => StrLess(entries[a], entries[b])
                    /\ Elems(entries) = {ResolvedName(g[j]) : j \in DOMAIN g}
                    /\ \A p \in Permutations(DOMAIN tables.comp_loc.rows) :
                        loc_text([tables EXCEPT
                            !.comp_loc.rows = Permuted(tables.comp_loc.rows, p)])[r.ComponentID]
                        = r.FoundIn

\* A component whose location rows name Dam, Bay and Dam again, in that order,
\* has been built: its FoundIn is "Bay, Dam".
C3_UnsortedDuplicateBuilt ==
    /\ pc = "built"
    /\ Len(tables.comp_loc.rows) = 3
    /\ \A j \in 1..3 : tables.comp_loc.rows[j].ComponentID = 1
    /\ ResolvedName(tables.comp_loc.rows[1]) = Dam
    /\ ResolvedName(tables.comp_loc.rows[2]) = Bay
    /\ ResolvedName(tables.comp_loc.rows[3]) = Dam
    /\ DisplayRows[1].FoundIn = Bay \o CommaSpace \o Dam

\* The ComponentLocation rows of a component whose LocationID the Location
\* sheet has, and those whose LocationID it lacks.
Matched(row) == \E l \in Elems(tables.loc.rows) : l.LocationID = row.LocationID

EntryWithX(name, h) ==
    name \o <<" ", "(">>
    \o (IF h % 2 = 0 THEN IntStr(h \div 2) ELSE IntStr(h \div 2) \o <<".", "5">>)
    \o <<"x", ")">>

CoercedHalves(cell) == IF cell.t = "num" THEN cell.h ELSE 0

CraftableNameOf(id) ==
    (CHOOSE c \in Elems(tables.craft.rows) : c.CraftableID = id).CraftableName

ComponentNameOf(id) ==
    (CHOOSE c \in Elems(tables.comp.rows) : c.ComponentID = id).ComponentName

\* C5: for every component with usage rows (all of known craftables), Uses is
\* the ", "-joined sequence of one entry "<CraftableName> (<qty>x)" per
\* ComponentUsage row of the component, in source-row order, rows of the same
\* craftable not merged; and DismantlesInto has the same entry format, with
\* the result component's name.
C5_UsedInEntryFormat ==
    Returned =>
        \A i \in DOMAIN DisplayRows :
            LET r == DisplayRows[i]
                g == RowsOf(tables.usage.rows, r.ComponentID)
                d == SelectSeq(tables.dis.rows, LAMBDA x : x.SourceComponentID = r.ComponentID)
            IN  /\ (/\ g # <<>>
                    /\ \A j \in DOMAIN g :
                        \E c \in Elems(tables.craft.rows) : c.CraftableID = g[j].CraftableID)
                    => r.Uses =
                        Join(CommaSpace,
                             [j \in DOMAIN g |->
                                EntryWithX(CraftableNameOf(g[j].CraftableID),
                                           CoercedHalves(g[j].UsageQuantity))])
                /\ (/\ d # <<>>
                    /\ \A j \in DOMAIN d :
                        \E c \in Elems(tables.comp.rows) : c.ComponentID = d[j].ResultComponentID)
                    => r.DismantlesInto =
                        Join(CommaSpace,
                             [j \in DOMAIN d |->
                                EntryWithX(ComponentNameOf(d[j].ResultComponentID),
                                           CoercedHalves(d[j].Quantity))])

\* Component 1 has been built from the usage rows (1, 10, 1) and (1, 10, 1.5).
C5_TwoRowsSameCraftableBuilt ==
    /\ pc = "built"
    /\ tables.usage.rows =
        <<[ComponentID |-> 1, CraftableID |-> 10, UsageQuantity |-> NumCell(2)],
          [ComponentID |-> 1, CraftableID |-> 10, UsageQuantity |-> NumCell(3)]>>

\* One of Component ID, Component Name, Location ID and Location Name is not
\* resolved in its sheet.
RequiredColumnMissing ==
    \/ comp_id_col(tables) = None \/ comp_name_col(tables) = None
    \/ loc_id_col(tables) = None \/ loc_name_col(tables) = None

\* C6 as stated: when a required ID or name column (of the Component or of the
\* Location sheet) is not resolved, the load ends in the fatal configuration
\* error and no display table is produced.
C6_RequiredColumnsFatal ==
    (pc # "prepared" /\ RequiredColumnMissing) => (error = "stop" /\ ~Returned)

\* C6 amended: when the Component ID or the Component Name column is not
\* resolved, the load ends in the fatal configuration error, reported, and
\* nothing is produced, filtered or shown; an unresolved Location ID or
\* Location Name column is not a configuration error, and every record of a
\* load that completes then has FoundIn "Unknown".
C6_ComponentColumnsFatal ==
    pc # "prepared" =>
        /\ (comp_id_col(tables) = None \/ comp_name_col(tables) = None)
            => /\ pc = "halted" /\ error = "stop"
               /\ ~Returned /\ result_df = NoFrame /\ shown = <<>>
        /\ (/\ comp_id_col(tables) # None /\ comp_name_col(tables) # None
            /\ (loc_id_col(tables) = None \/ loc_name_col(tables) = None))
            => /\ error # "stop"
               /\ Returned => \A i \in DOMAIN DisplayRows : DisplayRows[i].FoundIn = Unknown

\* The load has stopped on a Component sheet that has its ID column and no
\* name column.
C6_StoppedWithoutNameColumn ==
    /\ pc = "halted" /\ error = "stop"
    /\ comp_id_col(tables) # None /\ comp_name_col(tables) = None

\* C7: when the Component sheet has no rarity or no sell price column (and has
\* its ID and name columns), the display table still has a ComponentRarity and
\* a ComponentSellPrice column, and neither filter_display nor the selection
\* of the shown columns raises.
C7_OptionalColumnsGraceful ==
    (/\ comp_id_col(tables) # None /\ comp_name_col(tables) # None
     /\ (comp_rarity_col(tables) = None \/ comp_price_col(tables) = None))
    => /\ error \notin {"filter", "render"}
       /\ Returned =>
            {"ComponentRarity", "ComponentSellPrice"} \subseteq prepared.display.columns

\* The column selection has been reached with a table that has no rarity column.
C7_RenderWithoutRarity ==
    /\ comp_rarity_col(tables) = None
    /\ pc = "halted" /\ error = "render"

\* The DismantlesInto text has an entry for a component of that name.
References(text, name) ==
    \E j \in DOMAIN SplitCommaSpace(text) :
        LET e == SplitCommaSpace(text)[j]
        IN  Len(e) >= Len(name) + 2 /\ SubSeq(e, 1, Len(name) + 2) = name \o <<" ", "(">>

\* Only the named selection is made, the checkbox left checked.
Only(key) == DOMAIN filters = {key, "show_unknown"} /\ filters["show_unknown"]

\* C8: filter_display with dismantle_to alone never raises; for a name no
\* displayed component has, the result is empty; for a name a component has,
\* the result is the records that are the source of a DismantleResults row
\* whose result is a component of that name, which are the records whose
\* DismantlesInto text references that name.
C8_DismantleTargetExact ==
    /\ ("dismantle_to" \in DOMAIN filters /\ "rarity" \notin DOMAIN filters) => error # "filter"
    /\ (pc = "filtered" /\ Only("dismantle_to")) =>
        LET name == filters["dismantle_to"]
        IN  IF \A i \in DOMAIN DisplayRows : DisplayRows[i].ComponentName # name
            THEN result_df.rows = <<>>
            ELSE /\ result_df.rows =
                        SelectSeq(DisplayRows,
                            LAMBDA r : \E d \in Elems(tables.dis.rows) :
                                /\ d.SourceComponentID = r.ComponentID
                                /\ \E c \in Elems(tables.comp.rows) :
                                    c.ComponentID = d.ResultComponentID /\ c.ComponentName = name)
                 /\ result_df.rows =
                        SelectSeq(DisplayRows, LAMBDA r : References(r.DismantlesInto, name))

\* The filter has run for a name that two components share.
C8_SharedNameFiltered ==
    /\ pc = "filtered" /\ Only("dismantle_to")
    /\ Cardinality({i \in DOMAIN DisplayRows :
            DisplayRows[i].ComponentName = filters["dismantle_to"]}) = 2

\* C9: filter_display with location L alone keeps the records whose FoundIn
\* contains L character for character; for L = "Unknown" it keeps the records
\* whose FoundIn is "Unknown".
C9_LocationFilterExact ==
    (pc = "filtered" /\ Only("location")) =>
        result_df.rows =
            SelectSeq(DisplayRows,
                LAMBDA r : IF filters["location"] = Unknown THEN r.FoundIn = Unknown
                           ELSE LiteralSubstring(r.FoundIn, filters["location"]))

\* The filter has run for "Unknown" on a table with a component found in
\* "Unknown Bay".
C9_UnknownSelectedWithUnknownBay ==
    /\ pc = "filtered" /\ Only("location") /\ filters["location"] = Unknown
    /\ \E i \in DOMAIN DisplayRows : DisplayRows[i].FoundIn = UnknownBay

\* No selection is made, and the checkbox is absent or checked.
NoPredicates(f) == DOMAIN f \subseteq {"show_unknown"} /\ (DOMAIN f # {} => f["show_unknown"])

\* C10: filter_display with no predicate set and show_unknown at its default
\* returns the display table, the same records in the same order, without
\* raising; and no call of filter_display changes the display table or the
\* dismantle lookup passed to it.
C10_NoPredicatesIdentity ==
    /\ [](((pc \in {"filtered", "rendered"} \/ error \in {"filter", "render"})
            /\ NoPredicates(filters))
          => (error # "filter" /\ result_df = prepared.display))
    /\ [][pc = "built" => prepared' = prepared]_vars

\* The empty filter dict has been applied to a table with a component of
\* unknown location and one of known location.
C10_EmptyFilterApplied ==
    /\ pc = "filtered" /\ DOMAIN filters = {}
    /\ \E i \in DOMAIN result_df.rows : result_df.rows[i].FoundIn = Unknown
    /\ \E i \in DOMAIN result_df.rows : result_df.rows[i].FoundIn # Unknown

====
